---------------------------- MODULE Spec2Model ----------------------------
(***************************************************************************)
(* A model of the WSJT-X packet codec of examples/AutoGridCL/AutoGridCL.py *)
(* (PacketWriter, PacketReader, the packet classes with their Builders and *)
(* WSJTXPacketClassFactory.from_udp_packet).                               *)
(*                                                                         *)
(* Representation of Python values:                                        *)
(*   bytes / bytearray   a sequence of 0..255                              *)
(*   str                 [t |-> "str", v |-> sequence of code points]      *)
(*   None                [t |-> "None"]                                    *)
(*   int (signed 32)     an integer                                        *)
(*   int (unsigned 32)   <<high 16 bits, low 16 bits>>: TLC integers     *)
(*                       are 32-bit signed, and 0xadbccbda is not one    *)
(*   int (signed 64)     <<signed high 32 bits, unsigned low 32 bits>>     *)
(*   float               [sign, exponent, fraction] of the IEEE-754 double *)
(*   a raised exception  a record with exc # "none"                        *)
(***************************************************************************)
EXTENDS Integers, Sequences, FiniteSets, TLC

(***************************************************************************)
(* Bounds of the model (not program constants).                            *)
(***************************************************************************)
\* datagrams of up to MAXIMUM_NETWORK_MESSAGE_SIZE + MaxOverrun bytes arrive
MaxOverrun == 1
\* Heartbeat's version and revision are drawn from -1..MaxVersion
MaxVersion == 1
\* the stand-alone PacketWriter is driven through this many writes
MaxWrites == 2
\* a string read is tried on length prefixes that overrun the buffer by
\* 1..MaxExcess bytes
MaxExcess == 2

\* grid_callback threads started and not yet run
MaxThreads == 2

\* serial_worker threads started: the ports opened
MaxOpens == 2

(***************************************************************************)
(* Program constants.                                                      *)
(***************************************************************************)
SCHEMA_VERSION == 3
MINIMUM_SCHEMA_SUPPORTED == 2
MAXIMUM_SCHEMA_SUPPORTED == 3
MINIMUM_NETWORK_MESSAGE_SIZE == 8
MAXIMUM_NETWORK_MESSAGE_SIZE == 2048
\* 0xadbccbda as <<0xadbc, 0xcbda>>
MAGIC_NUMBER == <<44476, 52186>>

(***************************************************************************)
(* Python values.                                                          *)
(***************************************************************************)
PyNone == [t |-> "None"]
PyStr(cps) == [t |-> "str", v |-> cps]
PyBytes(bs) == [t |-> "bytes", v |-> bs]
PyInt(n) == [t |-> "int", n |-> n]
PyInt64(q) == [t |-> "int", q |-> q]
PyFloat(d) == [t |-> "float", d |-> d]

\* the argument or result v of the QInt8/QInt32/QInt64/QFloat/QString call op,
\* as a Python value
PyValue(op, v) ==
    CASE op \in {"QInt8", "QInt32"} -> PyInt(v)
      [] op = "QInt64" -> PyInt64(v)
      [] op = "QFloat" -> PyFloat(v)
      [] OTHER -> v

Byte == 0..255

Min(a, b) == IF a < b THEN a ELSE b
Max(a, b) == IF a > b THEN a ELSE b

\* the element of a one-element set. The({e : x \in {v}}) is e with x bound
\* to the value of v, which is computed once however often e uses x
The(S) == CHOOSE out \in S : TRUE

\* seq[a:b] of Python: negative indexes count from the end, both are clamped.
\* Where the slice starts and ends (0-based, the end excluded)
PySliceLo(n, a) == IF a < 0 THEN Max(a + n, 0) ELSE Min(a, n)
PySliceHi(n, b) == IF b < 0 THEN Max(b + n, 0) ELSE Min(b, n)

\* the indexes the slice reads
PySliceIndexes(n, a, b) == PySliceLo(n, a)..(PySliceHi(n, b) - 1)

PySlice(s, a, b) == SubSeq(s, PySliceLo(Len(s), a) + 1, PySliceHi(Len(s), b))

(***************************************************************************)
(* str.encode() and bytes.decode('utf-8').                                 *)
(***************************************************************************)
Utf8Char(cp) ==
    IF cp < 128 THEN <<cp>>
    ELSE IF cp < 2048 THEN <<192 + (cp \div 64), 128 + (cp % 64)>>
    ELSE IF cp < 65536
         THEN <<224 + (cp \div 4096), 128 + ((cp \div 64) % 64), 128 + (cp % 64)>>
    ELSE <<240 + (cp \div 262144), 128 + ((cp \div 4096) % 64),
           128 + ((cp \div 64) % 64), 128 + (cp % 64)>>

RECURSIVE Utf8Encode(_)
Utf8Encode(cps) ==
    IF cps = <<>> THEN <<>> ELSE Utf8Char(Head(cps)) \o Utf8Encode(Tail(cps))

\* [ok, cps]: ok is FALSE where Python raises UnicodeDecodeError
RECURSIVE Utf8Decode(_)
Utf8Decode(bs) ==
    IF bs = <<>> THEN [ok |-> TRUE, cps |-> <<>>]
    ELSE
      LET n  == Len(bs)
          b1 == bs[1]
          width == IF b1 < 128 THEN 1
                   ELSE IF b1 \in 194..223 THEN 2
                   ELSE IF b1 \in 224..239 THEN 3
                   ELSE IF b1 \in 240..244 THEN 4
                   ELSE 0
          cont(i) == i <= n /\ bs[i] \in 128..191
          valid ==
            \/ width = 1
            \/ width = 2 /\ cont(2)
            \/ /\ width = 3 /\ cont(2) /\ cont(3)
               /\ (b1 = 224 => bs[2] >= 160)
               /\ (b1 = 237 => bs[2] <= 159)
            \/ /\ width = 4 /\ cont(2) /\ cont(3) /\ cont(4)
               /\ (b1 = 240 => bs[2] >= 144)
               /\ (b1 = 244 => bs[2] <= 143)
          cp == IF width = 1 THEN b1
                ELSE IF width = 2 THEN (b1 - 192) * 64 + (bs[2] - 128)
                ELSE IF width = 3
                     THEN (b1 - 224) * 4096 + (bs[2] - 128) * 64 + (bs[3] - 128)
                ELSE (b1 - 240) * 262144 + (bs[2] - 128) * 4096
                     + (bs[3] - 128) * 64 + (bs[4] - 128)
      IN  IF ~valid THEN [ok |-> FALSE, cps |-> <<>>]
          ELSE The({
               The({
                 IF ~rest.ok THEN rest
                 ELSE [ok |-> TRUE, cps |-> <<cp>> \o rest.cps]
                 : rest \in {Utf8Decode(tail)}})
                 : tail \in {SubSeq(bs, width + 1, n)}})

(***************************************************************************)
(* struct.pack / struct.unpack, big-endian.                                *)
(***************************************************************************)
\* '>b': one byte, two's complement
Pack_b(val) == <<val % 256>>
Unpack_b(bs) == IF bs[1] >= 128 THEN bs[1] - 256 ELSE bs[1]

\* '>l': signed 32 bits
Pack_l(val) ==
    <<(val \div 16777216) % 256, (val \div 65536) % 256,
      (val \div 256) % 256, val % 256>>
Unpack_l(bs) ==
    (IF bs[1] >= 128 THEN bs[1] - 256 ELSE bs[1]) * 16777216
      + bs[2] * 65536 + bs[3] * 256 + bs[4]

\* '>L': unsigned 32 bits, as <<high 16, low 16>>
Pack_L(val) ==
    <<val[1] \div 256, val[1] % 256, val[2] \div 256, val[2] % 256>>
Unpack_L(bs) == <<bs[1] * 256 + bs[2], bs[3] * 256 + bs[4]>>

\* a small non-negative int as an unsigned 32-bit value, and the order of those
U32(n) == <<n \div 65536, n % 65536>>
U32Less(a, b) == a[1] < b[1] \/ (a[1] = b[1] /\ a[2] < b[2])

\* '>q': signed 64 bits
Pack_q(val) == Pack_l(val[1]) \o Pack_L(val[2])
Unpack_q(bs) == <<Unpack_l(SubSeq(bs, 1, 4)), Unpack_L(SubSeq(bs, 5, 8))>>

\* '>d': the double's sign, biased exponent and 52-bit fraction (20 + 32 bits)
Unpack_d(bs) ==
    [sign     |-> bs[1] \div 128,
     exponent |-> (bs[1] % 128) * 16 + (bs[2] \div 16),
     fraction |-> <<(bs[2] % 16) * 65536 + bs[3] * 256 + bs[4],
                    Unpack_L(SubSeq(bs, 5, 8))>>]

(***************************************************************************)
(* PacketWriter.  A writer is its bytearray `packet`; every write returns  *)
(* [packet, exc], exc naming the exception raised ("none": it returned).   *)
(***************************************************************************)
Written(pk) == [packet |-> pk, exc |-> "none"]
WriteRaised(pk, e) == [packet |-> pk, exc |-> e]

write_QInt8(pk, val) ==
    IF val < -128 \/ val > 127 THEN WriteRaised(pk, "struct.error")
    ELSE Written(pk \o Pack_b(val))

write_QInt32(pk, val) == Written(pk \o Pack_l(val))

write_QUInt32(pk, val) == Written(pk \o Pack_L(val))

write_QInt64(pk, val) == Written(pk \o Pack_q(val))

\* write_QString with the number of characters as the length prefix
write_QString_CharCount(pk, str_val) ==
    IF str_val.t = "None" THEN WriteRaised(pk, "AttributeError")
    ELSE LET b_values == IF str_val.t # "bytes" THEN Utf8Encode(str_val.v)
                         ELSE str_val.v
         IN  Written(write_QInt32(pk, Len(str_val.v)).packet \o b_values)

write_QString(pk, str_val) ==
    IF str_val.t = "None"
    THEN \* None.encode()
         WriteRaised(pk, "AttributeError")
    ELSE LET b_values == IF str_val.t # "bytes" THEN Utf8Encode(str_val.v)
                         ELSE str_val.v
             length == Len(b_values)
         IN  Written(write_QInt32(pk, length).packet \o b_values)

write_header(pk) ==
    write_QInt32(write_QUInt32(pk, MAGIC_NUMBER).packet, SCHEMA_VERSION)

\* PacketWriter(): an empty bytearray, then the header
PacketWriter == write_header(<<>>).packet

\* one write, named by its method
Write(pk, op, val) ==
    CASE op = "QInt8"   -> write_QInt8(pk, val)
      [] op = "QInt32"  -> write_QInt32(pk, val)
      [] op = "QInt64"  -> write_QInt64(pk, val)
      [] op = "QString" -> write_QString(pk, val)

\* the statements of a Builder, in order, stopping at the first that raises
RECURSIVE WriteFields(_, _)
WriteFields(pk, fields) ==
    IF fields = <<>> THEN Written(pk)
    ELSE The({
           IF w.exc # "none" THEN w ELSE WriteFields(w.packet, Tail(fields))
           : w \in {Write(pk, Head(fields)[1], Head(fields)[2])}})

(***************************************************************************)
(* PacketReader.  A reader ps is [packet, ptr_pos, max_ptr_pos]; every     *)
(* read returns [ps, exc, val, touched]: the reader after the call, the    *)
(* exception raised, the value returned and the indexes of packet read.    *)
(***************************************************************************)
ReadRaised(ps, e, idx) == [ps |-> ps, exc |-> e, val |-> PyNone, touched |-> idx]
ReadOk(ps, v, idx) == [ps |-> ps, exc |-> "none", val |-> v, touched |-> idx]

\* check_ptr_bound raising also where the field ends with the buffer
check_ptr_bound_Inclusive(ps, length) ==
    length >= ps.max_ptr_pos + 1 - ps.ptr_pos

\* TRUE where check_ptr_bound raises: ptr_pos + length > max_ptr_pos + 1,
\* written without the sum, which a length near 2^31 would overflow here
check_ptr_bound(ps, length) == length > ps.max_ptr_pos + 1 - ps.ptr_pos

skip_header(ps) ==
    IF ps.max_ptr_pos < 8 THEN [ps |-> ps, exc |-> "Exception"]
    ELSE [ps |-> [ps EXCEPT !.ptr_pos = 8], exc |-> "none"]

NewPacketReader(packet) ==
    skip_header([packet |-> packet, ptr_pos |-> 0, max_ptr_pos |-> Len(packet) - 1])

\* the shape shared by QInt32, QInt8, QInt64 and QFloat
\* struct.unpack(fmt, data)[0] for the formats the reader uses
struct_unpack(fmt, data) ==
    CASE fmt = ">l" -> Unpack_l(data)
      [] fmt = ">b" -> Unpack_b(data)
      [] fmt = ">q" -> Unpack_q(data)
      [] fmt = ">d" -> Unpack_d(data)

FixedRead(ps, width, fmt) ==
    IF check_ptr_bound(ps, width) THEN ReadRaised(ps, "Exception", {})
    ELSE LET data == PySlice(ps.packet, ps.ptr_pos, ps.ptr_pos + width)
             idx  == PySliceIndexes(Len(ps.packet), ps.ptr_pos, ps.ptr_pos + width)
         IN  IF Len(data) # width THEN ReadRaised(ps, "struct.error", idx)
             ELSE ReadOk([ps EXCEPT !.ptr_pos = @ + width], struct_unpack(fmt, data), idx)

QInt32(ps) == FixedRead(ps, 4, ">l")

QInt8(ps) == FixedRead(ps, 1, ">b")

QInt64(ps) == FixedRead(ps, 8, ">q")

QFloat(ps) == FixedRead(ps, 8, ">d")

\* QString taking its bytes with a plain slice, not with struct.unpack
QString_PlainSlice(ps) ==
    The({
      LET str_len == r.val
      IN  IF r.exc # "none" THEN r
          ELSE IF str_len = -1 THEN ReadOk(r.ps, PyNone, r.touched)
          ELSE IF check_ptr_bound(r.ps, str_len)
               THEN ReadRaised(r.ps, "Exception", r.touched)
          ELSE LET data == PySlice(r.ps.packet, r.ps.ptr_pos, r.ps.ptr_pos + str_len)
                   idx  == r.touched \cup
                           PySliceIndexes(Len(r.ps.packet), r.ps.ptr_pos,
                                          r.ps.ptr_pos + str_len)
                   after == [r.ps EXCEPT !.ptr_pos = @ + str_len]
               IN  The({
                     IF ~str.ok
                     THEN ReadRaised(after, "UnicodeDecodeError", idx)
                     ELSE ReadOk(after, PyStr(str.cps), idx)
                     : str \in {Utf8Decode(data)}})
                     : r \in {QInt32(ps)}})

QString(ps) ==
    The({
      LET str_len == r.val
      IN  IF r.exc # "none" THEN r
          ELSE IF str_len = -1 THEN ReadOk(r.ps, PyNone, r.touched)
          ELSE IF check_ptr_bound(r.ps, str_len)
               THEN ReadRaised(r.ps, "Exception", r.touched)
          ELSE LET data == PySlice(r.ps.packet, r.ps.ptr_pos, r.ps.ptr_pos + str_len)
                   idx  == r.touched \cup
                           PySliceIndexes(Len(r.ps.packet), r.ps.ptr_pos,
                                          r.ps.ptr_pos + str_len)
                   after == [r.ps EXCEPT !.ptr_pos = @ + str_len]
               IN  \* '-5s' is no struct format; 'ns' wants exactly n bytes
                   IF str_len < 0 \/ Len(data) # str_len
                   THEN ReadRaised(r.ps, "struct.error", idx)
                   ELSE The({
                          IF ~str.ok
                          THEN ReadRaised(after, "UnicodeDecodeError", idx)
                          ELSE ReadOk(after, PyStr(str.cps), idx)
                          : str \in {Utf8Decode(data)}})
                          : r \in {QInt32(ps)}})

at_eof(ps) == ps.ptr_pos > ps.max_ptr_pos

\* one read, named by its method
Read(ps, op) ==
    CASE op = "QInt8"   -> QInt8(ps)
      [] op = "QInt32"  -> QInt32(ps)
      [] op = "QInt64"  -> QInt64(ps)
      [] op = "QFloat"  -> QFloat(ps)
      [] op = "QString" -> QString(ps)

\* the reads of a packet class's __init__, in order, stopping at the first
\* that raises: [ps, exc, vals]
RECURSIVE ReadFields(_, _, _)
ReadFields(ps, ops, vals) ==
    IF ops = <<>> THEN [ps |-> ps, exc |-> "none", vals |-> vals]
    ELSE The({
           IF r.exc # "none" THEN [ps |-> r.ps, exc |-> r.exc, vals |-> vals]
           ELSE ReadFields(r.ps, Tail(ops), Append(vals, r.val))
           : r \in {Read(ps, Head(ops))}})

(***************************************************************************)
(* The packet classes.  A packet object is a record whose `type` is its    *)
(* class; a constructor that raises yields [type |-> "raised", exc].       *)
(***************************************************************************)
Raised(e) == [type |-> "raised", exc |-> e]

GenericWSJTXPacket(type, addr_port, magic, schema, pkt_type, id, pkt) ==
    [type |-> type, addr_port |-> addr_port, magic |-> magic, schema |-> schema,
     pkt_type |-> pkt_type, id |-> id, pkt |-> pkt]

InvalidPacket(addr_port, packet, message) ==
    [type |-> "InvalidPacket", packet |-> packet, message |-> message,
     addr_port |-> addr_port]

\* the reads of __init__ on a fresh PacketReader(pkt): [ps, exc, vals]
InitReads(pkt, ops) ==
    The({
      IF ps.exc # "none" THEN [ps |-> ps.ps, exc |-> ps.exc, vals |-> <<>>]
      ELSE ReadFields(ps.ps, ops, <<>>)
      : ps \in {NewPacketReader(pkt)}})

\* the reads of HeartBeatPacket.__init__, in order
HeartBeatPacket_reads == <<"QInt32", "QString", "QInt32", "QInt8", "QInt8">>

HeartBeatPacket(addr_port, magic, schema, pkt_type, id, pkt) ==
    The({
      LET v == r.vals
      IN  IF r.exc # "none" THEN Raised(r.exc)
          ELSE GenericWSJTXPacket("HeartBeatPacket", addr_port, magic, schema,
                                  pkt_type, id, pkt)
               @@ [wsjtx_id |-> v[2], max_schema |-> v[3], version |-> v[4],
                   revision |-> v[5]]
                   : r \in {InitReads(pkt, HeartBeatPacket_reads)}})

\* the reads of StatusPacket.__init__, in order
StatusPacket_reads ==
    <<"QInt32", "QString", "QInt64", "QString", "QString", "QString", "QString",
      "QInt8", "QInt8", "QInt8", "QInt32", "QInt32", "QString", "QString",
      "QString", "QInt8", "QString", "QInt8", "QInt8">>

StatusPacket(addr_port, magic, schema, pkt_type, id, pkt) ==
    The({
      LET v == r.vals
      IN  IF r.exc # "none" THEN Raised(r.exc)
          ELSE GenericWSJTXPacket("StatusPacket", addr_port, magic, schema,
                                  pkt_type, id, pkt)
               @@ [wsjtx_id |-> v[2], dial_frequency |-> v[3], mode |-> v[4],
                   dx_call |-> v[5], report |-> v[6], tx_mode |-> v[7],
                   tx_enabled |-> v[8], transmitting |-> v[9],
                   decoding |-> v[10], rx_df |-> v[11], tx_df |-> v[12],
                   de_call |-> v[13], de_grid |-> v[14], dx_grid |-> v[15],
                   tx_watchdog |-> v[16], sub_mode |-> v[17],
                   fast_mode |-> v[18], special_op_mode |-> v[19]]
                   : r \in {InitReads(pkt, StatusPacket_reads)}})

\* `datetime.timedelta` where DecodePacket.__init__ runs: `import datetime`
\* bound the module, `from datetime import datetime` has since rebound the
\* name to the class, which has no attribute timedelta
datetime_timedelta == [exc |-> "AttributeError"]

\* the reads of DecodePacket.__init__ before and after it computes the time
DecodePacket_reads_before == <<"QInt32", "QString", "QInt8", "QInt32">>
DecodePacket_reads_after ==
    <<"QInt32", "QFloat", "QInt32", "QString", "QString", "QInt8", "QInt8">>

DecodePacket(addr_port, magic, schema, pkt_type, id, pkt) ==
    The({
      IF r1.exc # "none" THEN Raised(r1.exc)
      ELSE IF datetime_timedelta.exc # "none" THEN Raised(datetime_timedelta.exc)
      ELSE The({
             LET v == r2.vals
             IN  IF r2.exc # "none" THEN Raised(r2.exc)
                 ELSE GenericWSJTXPacket("DecodePacket", addr_port, magic,
                                         schema, pkt_type, id, pkt)
                      @@ [wsjtx_id |-> v[2], new_decode |-> v[3],
                          millis_since_midnight |-> v[4], snr |-> v[5],
                          delta_t |-> v[6], delta_f |-> v[7], mode |-> v[8],
                          message |-> v[9], low_confidence |-> v[10],
                          off_air |-> v[11]]
                          : r2 \in {ReadFields(r1.ps, DecodePacket_reads_after,
                                                r1.vals)}})
                          : r1 \in {InitReads(pkt, DecodePacket_reads_before)}})

\* ClearPacket, ReplyPacket, QSOLoggedPacket, ClosePacket, ReplayPacket,
\* HaltTxPacket, FreeTextPacket, WSPRDecodePacket, LocationChangePacket and
\* LoggedADIFPacket: __init__ only stores the common fields
PrologueOnlyClasses ==
    {"ClearPacket", "ReplyPacket", "QSOLoggedPacket", "ClosePacket",
     "ReplayPacket", "HaltTxPacket", "FreeTextPacket", "WSPRDecodePacket",
     "LocationChangePacket", "LoggedADIFPacket"}

\* klass(addr_port, magic, schema, pkt_type, id, pkt)
Construct(klass, addr_port, magic, schema, pkt_type, id, pkt) ==
    CASE klass = "HeartBeatPacket" ->
           HeartBeatPacket(addr_port, magic, schema, pkt_type, id, pkt)
      [] klass = "StatusPacket" ->
           StatusPacket(addr_port, magic, schema, pkt_type, id, pkt)
      [] klass = "DecodePacket" ->
           DecodePacket(addr_port, magic, schema, pkt_type, id, pkt)
      [] klass \in PrologueOnlyClasses ->
           GenericWSJTXPacket(klass, addr_port, magic, schema, pkt_type, id, pkt)

\* TYPE_VALUE of each class
TYPE_VALUE ==
    [HeartBeatPacket |-> 0, StatusPacket |-> 1, DecodePacket |-> 2,
     ClearPacket |-> 3, ReplyPacket |-> 4, QSOLoggedPacket |-> 5,
     ClosePacket |-> 6, ReplayPacket |-> 7, HaltTxPacket |-> 8,
     FreeTextPacket |-> 9, WSPRDecodePacket |-> 10, LocationChangePacket |-> 11,
     LoggedADIFPacket |-> 12, InvalidPacket |-> -1]

(***************************************************************************)
(* The Builders.  Each returns [packet, exc].                              *)
(***************************************************************************)
HeartBeatPacket_Builder(wsjtx_id, max_schema, version, revision) ==
    WriteFields(PacketWriter,
                << <<"QInt32", TYPE_VALUE.HeartBeatPacket>>, <<"QString", wsjtx_id>>,
                   <<"QInt32", max_schema>>, <<"QInt32", version>>,
                   <<"QInt32", revision>> >>)

\* send is a bool: struct.pack('>b', True) is b'\x01'
FreeTextPacket_Builder(to_wsjtx_id, text, send) ==
    WriteFields(PacketWriter,
                << <<"QInt32", TYPE_VALUE.FreeTextPacket>>, <<"QString", to_wsjtx_id>>,
                   <<"QString", text>>, <<"QInt8", IF send THEN 1 ELSE 0>> >>)

\* LocationChangePacket.Builder writing the grid before the client id
LocationChangePacket_Builder_GridFirst(to_wsjtx_id, new_grid) ==
    WriteFields(PacketWriter,
                << <<"QInt32", TYPE_VALUE.LocationChangePacket>>,
                   <<"QString", new_grid>>, <<"QString", to_wsjtx_id>> >>)

LocationChangePacket_Builder(to_wsjtx_id, new_grid) ==
    WriteFields(PacketWriter,
                << <<"QInt32", TYPE_VALUE.LocationChangePacket>>,
                   <<"QString", to_wsjtx_id>>, <<"QString", new_grid>> >>)

LoggedADIFPacket_Builder(to_wsjtx_id, adif_text) ==
    WriteFields(PacketWriter,
                << <<"QInt32", TYPE_VALUE.LoggedADIFPacket>>,
                   <<"QString", to_wsjtx_id>>, <<"QString", adif_text>> >>)

(***************************************************************************)
(* WSJTXPacketClassFactory.                                                *)
(***************************************************************************)
PACKET_TYPE_TO_OBJ_MAP ==
    (TYPE_VALUE.HeartBeatPacket :> "HeartBeatPacket")
    @@ (TYPE_VALUE.StatusPacket :> "StatusPacket")
    @@ (TYPE_VALUE.DecodePacket :> "DecodePacket")
    @@ (TYPE_VALUE.ClearPacket :> "ClearPacket")
    @@ (TYPE_VALUE.ReplyPacket :> "ReplyPacket")
    @@ (TYPE_VALUE.QSOLoggedPacket :> "QSOLoggedPacket")
    @@ (TYPE_VALUE.ClosePacket :> "ClosePacket")
    @@ (TYPE_VALUE.ReplayPacket :> "ReplayPacket")
    @@ (TYPE_VALUE.HaltTxPacket :> "HaltTxPacket")
    @@ (TYPE_VALUE.FreeTextPacket :> "FreeTextPacket")
    @@ (TYPE_VALUE.WSPRDecodePacket :> "WSPRDecodePacket")

\* PACKET_TYPE_TO_OBJ_MAP.get(pkt_type), pkt_type an unsigned 32-bit value
MapGet(pkt_type) ==
    IF pkt_type[1] = 0 /\ pkt_type[2] \in DOMAIN PACKET_TYPE_TO_OBJ_MAP
    THEN PACKET_TYPE_TO_OBJ_MAP[pkt_type[2]]
    ELSE "None"

\* the argument `id` of from_udp_packet's last line is Python's builtin
BuiltinId == "<built-in function id>"

\* from_udp_packet once the size is accepted, making the checks named in
\* order ("magic", "schema", "kind"), in that order, and no other
HeaderAndClass_Checking(addr_port, udp_packet, order) ==
    LET head     == PySlice(udp_packet, 0, 16)
        magic    == Unpack_L(SubSeq(head, 1, 4))
        schema   == Unpack_L(SubSeq(head, 5, 8))
        pkt_type == Unpack_L(SubSeq(head, 9, 12))
        klass    == MapGet(pkt_type)
        fails(c) ==
            CASE c = "magic" -> magic # MAGIC_NUMBER
              [] c = "schema" -> \/ U32Less(schema, U32(MINIMUM_SCHEMA_SUPPORTED))
                                 \/ U32Less(U32(MAXIMUM_SCHEMA_SUPPORTED), schema)
              [] c = "kind" -> klass = "None"
        message(c) ==
            CASE c = "magic" -> <<"Invalid Magic Value">>
              [] c = "schema" -> <<"Unsupported schema value ", schema>>
              [] c = "kind" -> <<"Unknown packet type ", pkt_type>>
        failing == {i \in 1..Len(order) : fails(order[i])}
        first == CHOOSE i \in failing : \A j \in failing : i <= j
    IN  IF Len(head) # 16 THEN Raised("struct.error")
        ELSE IF failing # {}
        THEN InvalidPacket(addr_port, udp_packet, message(order[first]))
        ELSE IF klass = "None" THEN Raised("TypeError")
        ELSE Construct(klass, addr_port, magic, schema, pkt_type, BuiltinId,
                       udp_packet)

\* without the check of the magic number
HeaderAndClass_NoMagicCheck(addr_port, udp_packet) ==
    HeaderAndClass_Checking(addr_port, udp_packet, <<"schema", "kind">>)

\* from_udp_packet once the size is accepted: the header, then the class
HeaderAndClass(addr_port, udp_packet) ==
    LET head     == PySlice(udp_packet, 0, 16)
        magic    == Unpack_L(SubSeq(head, 1, 4))
        schema   == Unpack_L(SubSeq(head, 5, 8))
        pkt_type == Unpack_L(SubSeq(head, 9, 12))
        klass    == MapGet(pkt_type)
    IN  \* struct.unpack('>LLLL', ...) wants exactly 16 bytes
        IF Len(head) # 16 THEN Raised("struct.error")
        ELSE IF magic # MAGIC_NUMBER
        THEN InvalidPacket(addr_port, udp_packet, <<"Invalid Magic Value">>)
        ELSE IF \/ U32Less(schema, U32(MINIMUM_SCHEMA_SUPPORTED))
                \/ U32Less(U32(MAXIMUM_SCHEMA_SUPPORTED), schema)
        THEN InvalidPacket(addr_port, udp_packet,
                           <<"Unsupported schema value ", schema>>)
        ELSE IF klass = "None"
        THEN InvalidPacket(addr_port, udp_packet,
                           <<"Unknown packet type ", pkt_type>>)
        ELSE Construct(klass, addr_port, magic, schema, pkt_type, BuiltinId,
                       udp_packet)

\* from_udp_packet without its check of the maximum size
from_udp_packet_NoMaximum(addr_port, udp_packet) ==
    IF Len(udp_packet) < MINIMUM_NETWORK_MESSAGE_SIZE
    THEN InvalidPacket(addr_port, udp_packet, <<"Packet too small">>)
    ELSE HeaderAndClass(addr_port, udp_packet)

from_udp_packet(addr_port, udp_packet) ==
    IF Len(udp_packet) < MINIMUM_NETWORK_MESSAGE_SIZE
    THEN InvalidPacket(addr_port, udp_packet, <<"Packet too small">>)
    ELSE IF Len(udp_packet) > MAXIMUM_NETWORK_MESSAGE_SIZE
    THEN InvalidPacket(addr_port, udp_packet, <<"Packet too large">>)
    ELSE HeaderAndClass(addr_port, udp_packet)

(***************************************************************************)
(* The inputs: strings, and the datagrams a peer may send.                 *)
(***************************************************************************)
\* "test", "WSJT-X", "GRID:DM79", "DM79", "FT8", "K7BWH", "CQ", "" and
\* "é€😀" (two, three and four bytes of UTF-8)
Str_test    == PyStr(<<116, 101, 115, 116>>)
Str_WSJTX   == PyStr(<<87, 83, 74, 84, 45, 88>>)
Str_GRID    == PyStr(<<71, 82, 73, 68, 58, 68, 77, 55, 57>>)
Str_DM79    == PyStr(<<68, 77, 55, 57>>)
Str_FT8     == PyStr(<<70, 84, 56>>)
Str_K7BWH   == PyStr(<<75, 55, 66, 87, 72>>)
Str_CQ      == PyStr(<<67, 81>>)
Str_empty   == PyStr(<<>>)
Str_accents == PyStr(<<233, 8364, 128512>>)
Str_DM79lv == PyStr(<<68, 77, 55, 57, 108, 118>>)
Str_DM79LV == PyStr(<<68, 77, 55, 57, 76, 86>>)
Str_CN87us == PyStr(<<67, 78, 56, 55, 117, 115>>)

\* the grids the GPS comes to: what to_grid returns has six characters, the
\* last two in lower case
Grids == {Str_DM79lv, Str_CN87us}

\* what a caller may pass where a string is wanted
StringArgs == {Str_test, Str_empty, Str_accents, PyBytes(<<65, 66>>), PyNone}

\* the 8-byte header
Header == PacketWriter

\* a message laid out as the class of its kind reads it
Message(fields) == WriteFields(PacketWriter, fields).packet

ValidHeartBeat(wsjtx_id, max_schema, version, revision) ==
    Message(<< <<"QInt32", TYPE_VALUE.HeartBeatPacket>>, <<"QString", wsjtx_id>>,
               <<"QInt32", max_schema>>, <<"QInt8", version>>,
               <<"QInt8", revision>> >>)

ValidStatus(wsjtx_id, de_grid) ==
    Message(<< <<"QInt32", TYPE_VALUE.StatusPacket>>, <<"QString", wsjtx_id>>,
               <<"QInt64", <<0, U32(14074000)>> >>, <<"QString", Str_FT8>>,
               <<"QString", Str_empty>>, <<"QString", Str_empty>>,
               <<"QString", Str_FT8>>, <<"QInt8", 0>>, <<"QInt8", 0>>,
               <<"QInt8", 1>>, <<"QInt32", 1500>>, <<"QInt32", 1500>>,
               <<"QString", Str_K7BWH>>, <<"QString", de_grid>>,
               <<"QString", Str_empty>>, <<"QInt8", 0>>, <<"QString", Str_empty>>,
               <<"QInt8", 0>>, <<"QInt8", 0>> >>)

\* delta_t is 0.5: 0x3fe0000000000000
ValidDecode(wsjtx_id) ==
    Message(<< <<"QInt32", TYPE_VALUE.DecodePacket>>, <<"QString", wsjtx_id>>,
               <<"QInt8", 1>>, <<"QInt32", 43200000>>, <<"QInt32", -12>>,
               <<"QInt64", <<1071644672, U32(0)>> >>, <<"QInt32", 1500>>,
               <<"QString", Str_FT8>>, <<"QString", Str_CQ>>, <<"QInt8", 0>>,
               <<"QInt8", 0>> >>)

\* a kind whose class reads no payload: the kind and the client id
ValidPrologue(kind, wsjtx_id) ==
    Message(<< <<"QInt32", kind>>, <<"QString", wsjtx_id>> >>)

ValidMessages ==
    {ValidHeartBeat(Str_test, 3, 1, 1), ValidStatus(Str_WSJTX, Str_DM79),
     ValidDecode(Str_WSJTX),
     FreeTextPacket_Builder(Str_WSJTX, Str_CQ, FALSE).packet,
     LocationChangePacket_Builder(Str_WSJTX, Str_GRID).packet,
     LoggedADIFPacket_Builder(Str_WSJTX, Str_CQ).packet}
    \cup {ValidPrologue(k, Str_test) : k \in (3..8) \cup {10}}

IsPrefix(p, m) == Len(p) <= Len(m) /\ p = SubSeq(m, 1, Len(p))

Prefixes(m) == {SubSeq(m, 1, k) : k \in 0..Len(m)}

\* m with the bytes from..from+3 (1-based) replaced by the 4 bytes bs
Patch(m, from, bs) ==
    [i \in 1..Len(m) |-> IF i \in from..(from + 3) THEN bs[i - from + 1] ELSE m[i]]

\* m followed by zero bytes up to n bytes in all
PadTo(m, n) == m \o [i \in 1..(n - Len(m)) |-> 0]

\* messages with a wrong magic, schema or kind
Corrupted ==
    LET hb == ValidHeartBeat(Str_test, 3, 1, 1)
    IN  {Patch(hb, 1, Pack_L(<<44476, 52187>>)), Patch(hb, 1, <<0, 0, 0, 0>>),
         Patch(hb, 1, Pack_L(<<44477, 52186>>)),
         Patch(hb, 5, Pack_l(1)), Patch(hb, 5, Pack_l(2)), Patch(hb, 5, Pack_l(4)),
         Patch(hb, 5, Pack_l(0)), Patch(hb, 5, Pack_l(-1)),
         Patch(hb, 9, Pack_l(999)), Patch(hb, 9, Pack_l(-1)),
         Patch(Patch(Patch(hb, 1, <<0, 0, 0, 0>>), 5, Pack_l(4)), 9, Pack_l(999)),
         Patch(Patch(hb, 5, Pack_l(4)), 9, Pack_l(999))}

\* datagrams around the maximum size, with a good and with a bad header
Oversized ==
    LET ok  == ValidPrologue(TYPE_VALUE.ClearPacket, Str_test)
        bad == Patch(ok, 1, <<0, 0, 0, 0>>)
    IN  {PadTo(m, n) : m \in {ok, bad},
           n \in (MAXIMUM_NETWORK_MESSAGE_SIZE - 1)
                   ..(MAXIMUM_NETWORK_MESSAGE_SIZE + MaxOverrun)}

\* buffers for the reader: after the header and one int32, a string field
\* whose length prefix is absent (-1), negative, exact, short of or beyond the
\* bytes that follow, over text that is or is not UTF-8
StringFields ==
    LET bodies == {<<97, 98, 99>>, <<195, 169, 65>>, <<255, 254, 253>>,
                   <<65, 195>>, <<>>}
    IN  UNION {{Header \o Pack_l(7) \o Pack_l(n) \o b :
                  n \in {-1, -2, -17, -2147483647 - 1, 2147483647}
                          \cup (0..(Len(b) + MaxExcess))} : b \in bodies}

ReaderPackets ==
    Prefixes(Header \o <<1, 2>>) \cup StringFields
    \cup {ValidHeartBeat(Str_test, 3, 1, 1), ValidDecode(Str_empty)}

RxPackets ==
    UNION {Prefixes(m) : m \in ValidMessages \cup Corrupted} \cup Oversized
    \cup StringFields

AddrPorts == {<<"127.0.0.1", 50000>>, <<"192.168.1.7", 50001>>}

(***************************************************************************)
(* The state: a datagram at hand and what was made of it.                  *)
(***************************************************************************)
VARIABLES
    packet,      \* the datagram at hand: received, or returned by a Builder
    addr_port,   \* where it came from
    built,       \* the Builder call that returned packet, if one did
    the_packet,  \* what from_udp_packet made of packet
    ps,          \* a PacketReader: [packet, ptr_pos, max_ptr_pos]
    last,        \* the last call on ps: [op, exc, val, touched, ptr_before],
                 \* ptr_before the cursor when it was called
    pkt,         \* a PacketWriter and the last call on it: [packet, exc, op, arg]
    wsjtx_id,    \* the global wsjtx_id: None, or what a Heartbeat gave
    gps_grid,    \* the global gps_grid, written by grid_callback
    nmea_p,      \* the global nmea_p: None, or an NMEALocation
                 \* [valid, grid, last_fix_at]
    sgps,        \* the SerialGPS: [line_handlers, comm_thread, comm_device,
                 \* stop_signalled], comm_thread an index of threads or 0
    threads,     \* the serial_worker threads started, each where it is
    handled,     \* the last call of handle_serial: [exc, started, before,
                 \* grid], before the grid stored when it was called and
                 \* grid what the last "$GP" line handled gave, if it gave
    callbacks,   \* the grid_callback threads started and not yet run
    pc,          \* where the main thread is, or the exception that ended it
    stack,       \* where the calls the main thread is in return to
    grid_change_packet,  \* what LocationChangePacket.Builder returned
    sent,        \* the datagram s.send_packet sent in this iteration
    heartbeats   \* the wsjtx_id of every Heartbeat decoded so far

codec_vars == <<packet, addr_port, built, the_packet, ps, last, pkt>>

\* what only the main thread's loop writes
main_vars == <<wsjtx_id, grid_change_packet, sent, heartbeats>>

\* what the GPS side writes
gps_vars == <<gps_grid, nmea_p, sgps, threads, handled, callbacks>>

loop_vars == <<wsjtx_id, gps_grid, nmea_p, sgps, threads, handled, callbacks,
               pc, stack, grid_change_packet, sent, heartbeats>>

vars == <<packet, addr_port, built, the_packet, ps, last, pkt, wsjtx_id,
          gps_grid, nmea_p, sgps, threads, handled, callbacks, pc, stack,
          grid_change_packet, sent, heartbeats>>

NoPacket == [type |-> "none"]
NoReader == [state |-> "none"]
NoCall   == [op |-> "none", exc |-> "none", val |-> PyNone, touched |-> {},
             ptr_before |-> 0]
NoWriter == [state |-> "none"]
NoCallbacks == [grid \in Grids |-> 0]

\* SerialGPS()
SerialGPS == [line_handlers |-> <<>>, comm_thread |-> 0, comm_device |-> "None",
              stop_signalled |-> FALSE]

NoLine == [exc |-> "none", started |-> 0, before |-> PyStr(<<>>),
           grid |-> PyNone]

CodecInit ==
    /\ packet = <<>>
    /\ addr_port = <<"127.0.0.1", 50000>>
    /\ built = NoPacket
    /\ the_packet = NoPacket
    /\ ps = NoReader
    /\ last = NoCall
    /\ pkt = NoWriter

\* the globals as the statements before the loop leave them
GlobalsInit ==
    /\ wsjtx_id = PyNone
    /\ gps_grid = PyStr(<<>>)
    /\ sgps = SerialGPS
    /\ threads = <<>>
    /\ handled = NoLine
    /\ callbacks = NoCallbacks
    /\ stack = <<>>
    /\ grid_change_packet = PyNone
    /\ sent = PyNone
    /\ heartbeats = {}

Init ==
    /\ CodecInit
    /\ GlobalsInit
    /\ nmea_p = PyNone
    /\ pc = "rx_packet"

\* nothing is at hand yet: no datagram, no reader, no writer
WasBuilt == built.type # "none"
Decoded == the_packet.type # "none"
HasReader == "ptr_pos" \in DOMAIN ps
Called == last.op # "none"
HasWriter == "packet" \in DOMAIN pkt

Idle ==
    /\ packet = <<>>
    /\ ~WasBuilt
    /\ ~Decoded
    /\ ~HasReader
    /\ ~Called
    /\ ~HasWriter

\* s.rx_packet(): a datagram arrives
RxPacket ==
    /\ Idle
    /\ \E p \in RxPackets, a \in AddrPorts :
        /\ packet' = p
        /\ addr_port' = a
    /\ UNCHANGED <<built, the_packet, ps, last, pkt>>
    /\ UNCHANGED loop_vars

\* a Builder, called with the arguments args, returned b.packet or raised
Built(type, args, call) ==
    /\ Idle
    /\ \E b \in {call} :
           /\ built' = [type |-> type, args |-> args, exc |-> b.exc]
           /\ packet' = IF b.exc = "none" THEN b.packet ELSE <<>>
    /\ UNCHANGED <<addr_port, the_packet, ps, last, pkt>>
    /\ UNCHANGED loop_vars

HeartBeatBuilder ==
    \E id \in StringArgs, max_schema \in 2..3,
       version \in -1..MaxVersion, revision \in -1..MaxVersion :
        Built("HeartBeatPacket",
              [wsjtx_id |-> id, max_schema |-> max_schema,
               version |-> version, revision |-> revision],
              HeartBeatPacket_Builder(id, max_schema, version, revision))

FreeTextBuilder ==
    \E to_wsjtx_id \in {Str_WSJTX, PyNone}, text \in {Str_CQ, Str_empty},
       send \in BOOLEAN :
        Built("FreeTextPacket",
              [to_wsjtx_id |-> to_wsjtx_id, text |-> text, send |-> send],
              FreeTextPacket_Builder(to_wsjtx_id, text, send))

LocationChangeBuilder ==
    \E to_wsjtx_id \in {Str_WSJTX, Str_test, PyNone},
       new_grid \in {Str_GRID, Str_DM79, Str_empty} :
        Built("LocationChangePacket",
              [to_wsjtx_id |-> to_wsjtx_id, new_grid |-> new_grid],
              LocationChangePacket_Builder(to_wsjtx_id, new_grid))

LoggedADIFBuilder ==
    \E to_wsjtx_id \in {Str_WSJTX, PyNone}, adif_text \in {Str_CQ, Str_empty} :
        Built("LoggedADIFPacket",
              [to_wsjtx_id |-> to_wsjtx_id, adif_text |-> adif_text],
              LoggedADIFPacket_Builder(to_wsjtx_id, adif_text))

\* the_packet = WSJTXPacketClassFactory.from_udp_packet(addr_port, pkt), on
\* the datagram received or built
FromUdpPacket ==
    /\ ~Decoded
    /\ ~HasReader
    /\ ~Called
    /\ ~HasWriter
    /\ the_packet' = from_udp_packet(addr_port, packet)
    /\ UNCHANGED <<packet, addr_port, built, ps, last, pkt>>
    /\ UNCHANGED loop_vars

(***************************************************************************)
(* A PacketReader driven call by call.                                     *)
(***************************************************************************)
\* ps = PacketReader(p), over a buffer received or over what the writer holds
NewReader ==
    /\ ~WasBuilt
    /\ ~Decoded
    /\ ~HasReader
    /\ ~Called
    /\ packet = <<>>
    /\ \E p \in (IF ~HasWriter THEN ReaderPackets ELSE {pkt.packet}) :
        LET o == NewPacketReader(p)
        IN  /\ ps' = IF o.exc = "none" THEN o.ps ELSE NoReader
            /\ last' = [op |-> "PacketReader", exc |-> o.exc, val |-> PyNone,
                        touched |-> {}, ptr_before |-> 0]
            /\ packet' = p
    /\ UNCHANGED <<addr_port, built, the_packet, pkt>>
    /\ UNCHANGED loop_vars

ReadStep(op) ==
    /\ HasReader
    /\ \E r \in {Read(ps, op)} :
           /\ ps' = r.ps
           /\ last' = [op |-> op, exc |-> r.exc,
                       val |-> IF r.exc = "none" THEN PyValue(op, r.val)
                               ELSE PyNone,
                       touched |-> r.touched, ptr_before |-> ps.ptr_pos]
    /\ UNCHANGED <<packet, addr_port, built, the_packet, pkt>>
    /\ UNCHANGED loop_vars

ReadQInt8 == ReadStep("QInt8")

ReadQInt32 == ReadStep("QInt32")

ReadQInt64 == ReadStep("QInt64")

ReadQFloat == ReadStep("QFloat")

ReadQString == ReadStep("QString")

(***************************************************************************)
(* A PacketWriter driven call by call.                                     *)
(***************************************************************************)
\* pkt = PacketWriter()
NewWriter ==
    /\ Idle
    /\ pkt' = [packet |-> PacketWriter, exc |-> "none", op |-> "PacketWriter",
               arg |-> PyNone, calls |-> 0]
    /\ UNCHANGED <<packet, addr_port, built, the_packet, ps, last>>
    /\ UNCHANGED loop_vars

WriteStep(op, val) ==
    /\ HasWriter
    /\ ~Called
    /\ pkt.calls < MaxWrites
    /\ \E w \in {Write(pkt.packet, op, val)} :
           pkt' = [packet |-> w.packet, exc |-> w.exc, op |-> op,
                   arg |-> PyValue(op, val), calls |-> pkt.calls + 1]
    /\ UNCHANGED <<packet, addr_port, built, the_packet, ps, last>>
    /\ UNCHANGED loop_vars

WriteQInt8 == \E val \in {-1, 128} : WriteStep("QInt8", val)

WriteQInt32 == \E val \in {-1, 3} : WriteStep("QInt32", val)

WriteQInt64 == WriteStep("QInt64", <<0, U32(14074000)>>)

WriteQString == \E str_val \in StringArgs : WriteStep("QString", str_val)

Next ==
    \/ RxPacket
    \/ HeartBeatBuilder
    \/ FreeTextBuilder
    \/ LocationChangeBuilder
    \/ LoggedADIFBuilder
    \/ FromUdpPacket
    \/ NewReader
    \/ ReadQInt8
    \/ ReadQInt32
    \/ ReadQInt64
    \/ ReadQFloat
    \/ ReadQString
    \/ NewWriter
    \/ WriteQInt8
    \/ WriteQInt32
    \/ WriteQInt64
    \/ WriteQString

Spec == Init /\ [][Next]_vars

(***************************************************************************)
(* LatLongToGridSquare.  A line of the GPS is the sequence of its          *)
(* characters.  A float is held as the integer number of its               *)
(* ten-thousandths, and a latitude or longitude as minutes of arc held the *)
(* same way, 600000 to the degree: exact for the sentences below, whose    *)
(* fields have at most four decimals and lie off the edges of the squares. *)
(* Every call returns [exc, val].                                          *)
(***************************************************************************)
Returned(val) == [exc |-> "none", val |-> val]
NmeaRaised(e) == [exc |-> e, val |-> <<>>]

DigitChars == <<"0", "1", "2", "3", "4", "5", "6", "7", "8", "9">>
DigitOf(c) == (CHOOSE d \in 1..10 : DigitChars[d] = c) - 1
IsDigit(c) == \E d \in 1..10 : DigitChars[d] = c

\* str.startswith(prefix)
startswith(text, prefix) ==
    Len(text) >= Len(prefix) /\ SubSeq(text, 1, Len(prefix)) = prefix

\* str.split(","): the fields between the commas, at least one
RECURSIVE split(_)
split(text) ==
    IF \A i \in 1..Len(text) : text[i] # ","
    THEN <<text>>
    ELSE LET comma == CHOOSE i \in 1..Len(text) :
                          text[i] = "," /\ \A j \in 1..(i - 1) : text[j] # ","
         IN  <<SubSeq(text, 1, comma - 1)>>
             \o split(SubSeq(text, comma + 1, Len(text)))

\* the digits of a string of digits as a number
RECURSIVE DigitsValue(_)
DigitsValue(digits) ==
    IF digits = <<>> THEN 0
    ELSE 10 * DigitsValue(SubSeq(digits, 1, Len(digits) - 1))
         + DigitOf(digits[Len(digits)])

Pow10(k) == CASE k = 0 -> 1 [] k = 1 -> 10 [] k = 2 -> 100 [] k = 3 -> 1000
              [] OTHER -> 10000

\* float(str) of digits around at most one point, in ten-thousandths;
\* anything else of the characters of the sentences raises ValueError
float(str) ==
    LET points == {i \in 1..Len(str) : str[i] = "."}
        digits == {i \in 1..Len(str) : IsDigit(str[i])}
    IN  IF Cardinality(points) > 1 \/ digits = {}
           \/ Cardinality(points) + Cardinality(digits) # Len(str)
        THEN NmeaRaised("ValueError")
        ELSE LET point == IF points = {} THEN Len(str) + 1
                          ELSE CHOOSE i \in points : TRUE
                 whole == SubSeq(str, 1, point - 1)
                 decimals == SubSeq(str, point + 1, Min(Len(str), point + 4))
             IN  Returned(DigitsValue(whole) * 10000
                          + DigitsValue(decimals) * Pow10(4 - Len(decimals)))

LatLongToGridSquare_upper == 65
LatLongToGridSquare_lower == 97
Degree == 600000

\* to_grid(dec_lat, dec_lon)
to_grid(dec_lat, dec_lon) ==
    IF ~(-180 * Degree <= dec_lon /\ dec_lon < 180 * Degree)
    THEN NmeaRaised("GPSException")
    ELSE IF ~(-90 * Degree <= dec_lat /\ dec_lat < 90 * Degree)
    THEN NmeaRaised("GPSException")
    ELSE LET adj_lat == dec_lat + 90 * Degree
             adj_lon == dec_lon + 180 * Degree
             grid_lat_sq == LatLongToGridSquare_upper + (adj_lat \div (10 * Degree))
             grid_lon_sq == LatLongToGridSquare_upper + (adj_lon \div (20 * Degree))
             grid_lat_field == 48 + ((adj_lat \div Degree) % 10)
             grid_lon_field == 48 + ((adj_lon \div (2 * Degree)) % 10)
             adj_lat_remainder == adj_lat % Degree
             adj_lon_remainder == adj_lon % (2 * Degree)
             grid_lat_subsq == LatLongToGridSquare_lower + (adj_lat_remainder \div 25000)
             grid_lon_subsq == LatLongToGridSquare_lower + (adj_lon_remainder \div 50000)
         IN  Returned(PyStr(<<grid_lon_sq, grid_lat_sq, grid_lon_field,
                              grid_lat_field, grid_lon_subsq, grid_lat_subsq>>))

\* convert_to_degrees(gps_value, direction); str.index raises ValueError
\* where there is no point, so the test of dot_posn < 0 never fires
convert_to_degrees(gps_value, direction) ==
    IF direction \notin {<<"N">>, <<"S">>, <<"E">>, <<"W">>}
    THEN NmeaRaised("GPSException")
    ELSE IF Len(gps_value) < 3
    THEN NmeaRaised("GPSException")
    ELSE IF \A i \in 1..Len(gps_value) : gps_value[i] # "."
    THEN NmeaRaised("ValueError")
    ELSE LET dir_mult == IF direction \in {<<"S">>, <<"W">>} THEN -1 ELSE 1
             dot_posn == (CHOOSE i \in 1..Len(gps_value) :
                              /\ gps_value[i] = "."
                              /\ \A j \in 1..(i - 1) : gps_value[j] # ".") - 1
             degrees == float(PySlice(gps_value, 0, dot_posn - 2))
             mins == float(PySlice(gps_value, dot_posn - 2, Len(gps_value)))
         IN  IF degrees.exc # "none" THEN degrees
             ELSE IF mins.exc # "none" THEN mins
             ELSE Returned(dir_mult * (degrees.val * 60 + mins.val))

\* the body both GPGLL_to_grid and GPGGA_to_grid have: the sentence name is
\* dropped, components[5] is the fix and the latitude is at components[at];
\* GPSException, and nothing else, is caught
Sentence_to_grid(nmea_text, name, fix, at) ==
    LET fields == split(nmea_text)
        components == IF fields[1] = name THEN Tail(fields) ELSE fields
    IN  IF Len(components) < 6 THEN NmeaRaised("IndexError")
        ELSE IF components[6] # fix THEN Returned(PyStr(<<>>))
        ELSE The({
               IF lat.exc = "GPSException" THEN Returned(PyStr(<<>>))
               ELSE IF lat.exc # "none" THEN lat
               ELSE The({
                      IF long.exc = "GPSException" THEN Returned(PyStr(<<>>))
                      ELSE IF long.exc # "none" THEN long
                      ELSE The({
                             IF grid.exc = "GPSException"
                             THEN Returned(PyStr(<<>>)) ELSE grid
                             : grid \in {to_grid(lat.val, long.val)}})
                      : long \in {convert_to_degrees(components[at + 3],
                                                     components[at + 4])}})
               : lat \in {convert_to_degrees(components[at + 1],
                                             components[at + 2])}})

Name_GPGLL == <<"$", "G", "P", "G", "L", "L">>
Name_GPGGA == <<"$", "G", "P", "G", "G", "A">>

GPGLL_to_grid(GPSLLText) == Sentence_to_grid(GPSLLText, Name_GPGLL, <<"A">>, 0)

GPGGA_to_grid(GPGGAText) == Sentence_to_grid(GPGGAText, Name_GPGGA, <<"1">>, 1)

\* NMEA_to_grid(nmea_text)
NMEA_to_grid(nmea_text) ==
    IF startswith(nmea_text, Name_GPGLL) THEN GPGLL_to_grid(nmea_text)
    ELSE IF startswith(nmea_text, Name_GPGGA) THEN GPGGA_to_grid(nmea_text)
    ELSE Returned(PyStr(<<>>))

(***************************************************************************)
(* The program: the main thread's while loop, the serial thread that hands *)
(* each line of the GPS to NMEALocation.handle_serial, and the threads     *)
(* handle_serial starts to run grid_callback.                              *)
(***************************************************************************)
Str_GRIDColon == PyStr(<<71, 82, 73, 68, 58>>)
\* a QString as WSJT-X puts it on the wire: None is the length -1 alone
WireString(str_val) ==
    IF str_val.t = "None" THEN Pack_l(-1) ELSE write_QString(<<>>, str_val).packet

WireHeartBeat(id) ==
    Header \o Pack_l(TYPE_VALUE.HeartBeatPacket) \o WireString(id) \o Pack_l(3)
    \o Pack_b(1) \o Pack_b(1)

WireStatus(id, de_grid) ==
    Header \o Pack_l(TYPE_VALUE.StatusPacket) \o WireString(id)
    \o WriteFields(<<>>, << <<"QInt64", <<0, U32(14074000)>> >>,
                            <<"QString", Str_FT8>>, <<"QString", Str_empty>>,
                            <<"QString", Str_empty>>, <<"QString", Str_FT8>>,
                            <<"QInt8", 0>>, <<"QInt8", 0>>, <<"QInt8", 1>>,
                            <<"QInt32", 1500>>, <<"QInt32", 1500>>,
                            <<"QString", Str_K7BWH>> >>).packet
    \o WireString(de_grid)
    \o WriteFields(<<>>, << <<"QString", Str_empty>>, <<"QInt8", 0>>,
                            <<"QString", Str_empty>>, <<"QInt8", 0>>,
                            <<"QInt8", 0>> >>).packet

HeartBeats == {WireHeartBeat(id) : id \in {Str_WSJTX, PyNone}}

Statuses ==
    {WireStatus(Str_WSJTX, de_grid) : de_grid \in {Str_DM79LV, Str_CN87us}}

\* what the socket hands to the loop, and from where: Heartbeats and a Clear
\* from one WSJT-X, Status messages from it and from another
LoopPackets ==
    ((HeartBeats \cup {ValidPrologue(TYPE_VALUE.ClearPacket, Str_WSJTX)})
     \X {<<"127.0.0.1", 50000>>})
    \cup (Statuses \X AddrPorts)

\* from_udp_packet on each of them
Decodings ==
    [datagram \in LoopPackets |-> from_udp_packet(datagram[2], datagram[1])]

\* str.lower() on a string of ASCII
lower(str_val) ==
    PyStr([i \in 1..Len(str_val.v) |->
             IF str_val.v[i] \in 65..90 THEN str_val.v[i] + 32 ELSE str_val.v[i]])

\* str + str
concat(left, right) == PyStr(left.v \o right.v)

\* NMEALocation(grid_callback)
NMEALocation == [t |-> "NMEALocation", valid |-> FALSE, grid |-> PyStr(<<>>),
                 last_fix_at |-> "None"]

RECURSIVE Started(_, _)
Started(started, grids) ==
    IF grids = {} THEN 0
    ELSE LET grid == CHOOSE g \in grids : TRUE
         IN  started[grid] + Started(started, grids \ {grid})

\* what the GPS sends: the fields of a line, and a byte that is no UTF-8
Field_3953   == <<"3", "9", "5", "3", ".", "0", "0">>
Field_10503  == <<"1", "0", "5", "0", "3", ".", "0", "0">>
Field_4745   == <<"4", "7", "4", "5", ".", "1", "8", "4", "8">>
Field_12217  == <<"1", "2", "2", "1", "7", ".", "0", "6", "9", "9">>
Field_NoPoint == <<"3", "9", "5", "3">>
Field_time   == <<"0", "4", "2", "8", "4", "5">>
Field_end    == <<"A", "*", "7", "0", "\r", "\n">>
Name_GPRMC   == <<"$", "G", "P", "R", "M", "C">>
Name_GNGLL   == <<"$", "G", "N", "G", "L", "L">>
BadByte      == "0xff"

\* ",".join(fields)
RECURSIVE join(_)
join(fields) ==
    IF Len(fields) = 1 THEN fields[1]
    ELSE fields[1] \o <<",">> \o join(Tail(fields))

GPGLL(lat, long, fix) ==
    join(<<Name_GPGLL, lat, <<"N">>, long, <<"W">>, Field_time, fix, Field_end>>)

GPGGA(lat, long, fix) ==
    join(<<Name_GPGGA, Field_time, lat, <<"N">>, long, <<"W">>, fix, Field_end>>)

\* fixes in DM79lv and in CN87us, a sentence without a fix, one that is not of
\* the GPS, one of another kind, one cut short, one whose latitude has no
\* point, one that is no UTF-8, and the empty line of a timeout
GpsLines ==
    {GPGLL(Field_3953, Field_10503, <<"A">>),
     GPGGA(Field_3953, Field_10503, <<"1">>),
     GPGGA(Field_4745, Field_12217, <<"1">>),
     GPGLL(Field_4745, Field_12217, <<"V">>),
     join(<<Name_GNGLL, Field_4745, <<"N">>, Field_12217, <<"W">>, Field_time,
            <<"A">>, Field_end>>),
     join(<<Name_GPRMC, Field_time, <<"A">>, Field_end>>),
     join(<<Name_GPGLL, Field_4745, <<"N">>, Field_end>>),
     GPGLL(Field_NoPoint, Field_10503, <<"A">>),
     <<"$", BadByte, "\r", "\n">>,
     <<>>}

\* bytes.decode("utf-8")
decode(line) ==
    IF \E i \in 1..Len(line) : line[i] = BadByte
    THEN NmeaRaised("UnicodeDecodeError") ELSE Returned(line)

\* NMEALocation.handle_serial(text) on the object self:
\* [self, exc, gp, grid, started], gp whether text is a "$GP" line, grid
\* what NMEA_to_grid returned and started the threads started for
\* grid_changed_callback
handle_serial(self, text) ==
    IF ~startswith(text, <<"$", "G", "P">>)
    THEN [self |-> self, exc |-> "none", gp |-> FALSE, grid |-> PyNone,
          started |-> 0]
    ELSE The({
           IF r.exc # "none"
           THEN [self |-> self, exc |-> r.exc, gp |-> TRUE, grid |-> PyNone,
                 started |-> 0]
           ELSE IF r.val # PyStr(<<>>) /\ self.grid # r.val
           THEN [self |-> [self EXCEPT !.valid = TRUE, !.last_fix_at = "utcnow",
                                       !.grid = r.val],
                 exc |-> "none", gp |-> TRUE, grid |-> r.val, started |-> 1]
           ELSE IF r.val # PyStr(<<>>)
           THEN [self |-> [self EXCEPT !.valid = TRUE, !.last_fix_at = "utcnow"],
                 exc |-> "none", gp |-> TRUE, grid |-> r.val, started |-> 0]
           ELSE [self |-> [self EXCEPT !.valid = FALSE],
                 exc |-> "none", gp |-> TRUE, grid |-> r.val, started |-> 0]
           : r \in {NMEA_to_grid(text)}})

\* handle_serial on each state of an NMEALocation and each line
NMEALocations ==
    [t : {"NMEALocation"}, valid : BOOLEAN, grid : Grids \cup {PyStr(<<>>)},
     last_fix_at : {"None", "utcnow"}]

Handlings ==
    [call \in NMEALocations \X {line \in GpsLines : decode(line).exc = "none"} |->
       handle_serial(call[1], decode(call[2]).val)]

\* the bound method nmea_p.handle_serial of the object the global names
OfGlobal == [t |-> "nmea_p"]

\* the statements the main thread can be at: those of the loop body, those of
\* SerialGPS.open and close, and idle between the calls of a caller
MainLabels == {"rx_packet", "gps_grid", "lower", "Builder", "send_packet",
               "open", "Serial", "close", "join", "idle"}

\* the main thread ended with an exception: pc is its name
MainRaised == pc \notin MainLabels

\* the serial_worker threads that run
Alive == {i \in 1..Len(threads) : threads[i] \in {"stop_signalled", "readline"}}

\* (pkt, addr_port) = s.rx_packet() timed out: pkt is None and the body is
\* skipped
RxTimeout ==
    /\ pc = "rx_packet"
    /\ sent' = PyNone
    /\ UNCHANGED <<codec_vars, gps_vars, wsjtx_id, pc, stack,
                   grid_change_packet, heartbeats>>

\* a datagram arrives: from_udp_packet, then the Heartbeat branch up to the
\* call of sgps.open, or the test of the type that opens the Status branch,
\* or print(the_packet).  The handler registered keeps the NMEALocation it
\* was bound to when nmea_p is assigned a new one.
RxLoop ==
    /\ pc = "rx_packet"
    /\ sent' = PyNone
    /\ \E datagram \in LoopPackets :
        /\ packet' = datagram[1]
        /\ addr_port' = datagram[2]
        /\ \E decoded \in {Decodings[datagram]} :
            IF decoded.type = "raised"
            THEN /\ pc' = decoded.exc
                 /\ UNCHANGED <<the_packet, wsjtx_id, nmea_p, sgps, heartbeats,
                                stack>>
            ELSE /\ the_packet' = decoded
                 /\ heartbeats' =
                        IF decoded.type = "HeartBeatPacket"
                        THEN heartbeats \cup {decoded.wsjtx_id} ELSE heartbeats
                 /\ IF wsjtx_id.t = "None" /\ decoded.type = "HeartBeatPacket"
                    THEN /\ Len(threads) < MaxOpens
                         /\ wsjtx_id' = decoded.wsjtx_id
                         /\ nmea_p' = NMEALocation
                         /\ sgps' = [sgps EXCEPT !.line_handlers =
                                [h \in DOMAIN @ |->
                                   IF @[h] = OfGlobal THEN nmea_p ELSE @[h]]]
                         /\ pc' = "open"
                         /\ stack' = <<"rx_packet">>
                    ELSE /\ UNCHANGED <<wsjtx_id, nmea_p, sgps, stack>>
                         /\ pc' = IF decoded.type = "StatusPacket"
                                  THEN "gps_grid" ELSE "rx_packet"
    /\ UNCHANGED <<built, ps, last, pkt, gps_grid, threads, handled, callbacks,
                   grid_change_packet>>

\* if gps_grid != "": the left operand of the and
TestGpsGrid ==
    /\ pc = "gps_grid"
    /\ pc' = IF gps_grid # PyStr(<<>>) THEN "lower" ELSE "rx_packet"
    /\ UNCHANGED <<codec_vars, gps_vars, main_vars, stack>>

\* the_packet.de_grid.lower() != gps_grid.lower(): the right operand, which
\* reads gps_grid again; None has no lower
TestLower ==
    /\ pc = "lower"
    /\ pc' = IF the_packet.de_grid.t = "None" THEN "AttributeError"
             ELSE IF lower(the_packet.de_grid) # lower(gps_grid) THEN "Builder"
             ELSE "rx_packet"
    /\ UNCHANGED <<codec_vars, gps_vars, main_vars, stack>>

\* grid_change_packet = LocationChangePacket.Builder(wsjtx_id, "GRID:" + gps_grid),
\* after the print: gps_grid is read once more
CallBuilder ==
    /\ pc = "Builder"
    /\ \E r \in {LocationChangePacket_Builder(wsjtx_id,
                                             concat(Str_GRIDColon, gps_grid))} :
        IF r.exc # "none"
        THEN /\ pc' = r.exc
             /\ UNCHANGED grid_change_packet
        ELSE /\ pc' = "send_packet"
             /\ grid_change_packet' = PyBytes(r.packet)
    /\ UNCHANGED <<codec_vars, gps_vars, wsjtx_id, sent, heartbeats, stack>>

\* s.send_packet(the_packet.addr_port, grid_change_packet), then
\* print(the_packet)
SendPacket ==
    /\ pc = "send_packet"
    /\ sent' = [t |-> "datagram", addr_port |-> the_packet.addr_port,
                pkt |-> grid_change_packet.v]
    /\ pc' = "rx_packet"
    /\ UNCHANGED <<codec_vars, gps_vars, wsjtx_id, grid_change_packet,
                   heartbeats, stack>>

(***************************************************************************)
(* SerialGPS: open and close as the main thread runs them, and the         *)
(* serial_worker thread.                                                   *)
(***************************************************************************)
\* open(): if self.comm_device is not None, self.close() comes first
OpenTest ==
    /\ pc = "open"
    /\ IF sgps.comm_device # "None"
       THEN /\ pc' = "close"
            /\ stack' = <<"Serial">> \o stack
       ELSE /\ pc' = "Serial"
            /\ UNCHANGED stack
    /\ UNCHANGED <<codec_vars, gps_vars, main_vars>>

\* add_handler(line_handler)
add_handler(line_handlers, line_handler) ==
    IF \E h \in DOMAIN line_handlers : line_handlers[h] = line_handler
    THEN line_handlers ELSE Append(line_handlers, line_handler)

\* open(), from self.stop_signalled = False: serial.Serial opens the port or
\* raises; a port opened gets the handler and a serial_worker thread
OpenSerial ==
    /\ pc = "Serial"
    /\ \E opened \in BOOLEAN :
        IF opened
        THEN /\ sgps' = [sgps EXCEPT
                           !.stop_signalled = FALSE,
                           !.comm_device = "Serial",
                           !.line_handlers = add_handler(@, OfGlobal),
                           !.comm_thread = Len(threads) + 1]
             /\ threads' = Append(threads, "stop_signalled")
             /\ pc' = Head(stack)
             /\ stack' = Tail(stack)
        ELSE /\ sgps' = [sgps EXCEPT !.stop_signalled = FALSE]
             /\ pc' = "serial.SerialException"
             /\ UNCHANGED <<threads, stack>>
    /\ UNCHANGED <<codec_vars, main_vars, gps_grid, nmea_p, handled, callbacks>>

\* close(): self.stop_signalled = True
CloseSignal ==
    /\ pc = "close"
    /\ sgps' = [sgps EXCEPT !.stop_signalled = TRUE]
    /\ pc' = "join"
    /\ UNCHANGED <<codec_vars, main_vars, gps_grid, nmea_p, threads, handled,
                   callbacks, stack>>

Joined_NoWait(thread) == TRUE

\* Thread.join() returns once the thread has ended
Joined(thread) == thread \notin {"stop_signalled", "readline"}

\* close(), from self.comm_thread.join(): None has no join and no close
CloseJoin ==
    /\ pc = "join"
    /\ IF sgps.comm_thread = 0
       THEN /\ pc' = "AttributeError"
            /\ UNCHANGED <<sgps, stack>>
       ELSE /\ Joined(threads[sgps.comm_thread])
            /\ IF sgps.comm_device = "None"
               THEN /\ pc' = "AttributeError"
                    /\ UNCHANGED <<sgps, stack>>
               ELSE /\ sgps' = [sgps EXCEPT !.line_handlers = <<>>,
                                            !.comm_device = "None",
                                            !.stop_signalled = FALSE]
                    /\ pc' = Head(stack)
                    /\ stack' = Tail(stack)
    /\ UNCHANGED <<codec_vars, main_vars, gps_grid, nmea_p, threads, handled,
                   callbacks>>

\* serial_worker: if self.stop_signalled: return
WorkerTest ==
    /\ \E thread \in Alive :
        /\ threads[thread] = "stop_signalled"
        /\ threads' = [threads EXCEPT ![thread] =
                          IF sgps.stop_signalled THEN "returned" ELSE "readline"]
    /\ UNCHANGED <<codec_vars, main_vars, gps_grid, nmea_p, sgps, handled,
                   callbacks, pc, stack>>

\* serial_worker: line = self.comm_device.readline() and its dispatch to the
\* handlers, of which there is never more than one; a line that is no UTF-8
\* is logged, any other exception ends the thread.  A grid that changed
\* starts a thread that will run grid_callback(grid).
WorkerReadline ==
    /\ Started(callbacks, Grids) < MaxThreads
    /\ \E thread \in Alive, line \in GpsLines :
        /\ threads[thread] = "readline"
        /\ IF sgps.comm_device = "None"
           THEN /\ threads' = [threads EXCEPT ![thread] = "AttributeError"]
                /\ UNCHANGED <<nmea_p, sgps, handled, callbacks>>
           ELSE IF ~startswith(line, <<"$">>) \/ decode(line).exc # "none"
                   \/ sgps.line_handlers = <<>>
           THEN /\ threads' = [threads EXCEPT ![thread] = "stop_signalled"]
                /\ UNCHANGED <<nmea_p, sgps, handled, callbacks>>
           ELSE \E p \in {sgps.line_handlers[1]} :
                \E self \in {IF p = OfGlobal THEN nmea_p ELSE p} :
                \E r \in {Handlings[<<self, line>>]} :
                    /\ handled' = [exc |-> r.exc, started |-> r.started,
                                   before |-> self.grid,
                                   grid |-> IF r.gp THEN r.grid
                                            ELSE handled.grid]
                    /\ nmea_p' = IF p = OfGlobal THEN r.self ELSE nmea_p
                    /\ sgps' = IF p = OfGlobal THEN sgps
                               ELSE [sgps EXCEPT !.line_handlers = <<r.self>>]
                    /\ callbacks' = IF r.started = 0 THEN callbacks
                                    ELSE [callbacks EXCEPT ![r.grid] = @ + 1]
                    /\ threads' = [threads EXCEPT ![thread] =
                                     IF r.exc # "none" THEN r.exc
                                     ELSE "stop_signalled"]
    /\ UNCHANGED <<codec_vars, main_vars, gps_grid, pc, stack>>

\* one of the started threads runs grid_callback(new_grid)
GridCallback ==
    /\ \E new_grid \in Grids :
        /\ callbacks[new_grid] > 0
        /\ gps_grid' = new_grid
        /\ callbacks' = [callbacks EXCEPT ![new_grid] = @ - 1]
    /\ UNCHANGED <<codec_vars, main_vars, nmea_p, sgps, threads, handled, pc,
                   stack>>

LoopNext ==
    \/ RxTimeout
    \/ RxLoop
    \/ TestGpsGrid
    \/ TestLower
    \/ CallBuilder
    \/ SendPacket
    \/ OpenTest
    \/ OpenSerial
    \/ CloseSignal
    \/ CloseJoin
    \/ WorkerTest
    \/ WorkerReadline
    \/ GridCallback

LoopSpec == Init /\ [][LoopNext]_vars

(***************************************************************************)
(* The GPS side alone: a caller that holds an NMEALocation and calls       *)
(* sgps.open(GPS_PORT, GPS_RATE, nmea_p.handle_serial) and sgps.close() in *)
(* any order.                                                              *)
(***************************************************************************)
GpsInit ==
    /\ CodecInit
    /\ GlobalsInit
    /\ nmea_p = NMEALocation
    /\ pc = "idle"

CallOpen ==
    /\ pc = "idle"
    /\ Len(threads) < MaxOpens
    /\ pc' = "open"
    /\ stack' = <<"idle">>
    /\ UNCHANGED <<codec_vars, gps_vars, main_vars>>

CallClose ==
    /\ pc = "idle"
    /\ pc' = "close"
    /\ stack' = <<"idle">>
    /\ UNCHANGED <<codec_vars, gps_vars, main_vars>>

GpsNext ==
    \/ CallOpen
    \/ CallClose
    \/ OpenTest
    \/ OpenSerial
    \/ CloseSignal
    \/ CloseJoin
    \/ WorkerTest
    \/ WorkerReadline
    \/ GridCallback

GpsSpec == GpsInit /\ [][GpsNext]_vars

\* every thread that can take a step takes one in the end: the main thread in
\* close(), the serial_worker, whose readline returns when its timeout is
\* over, and the threads of grid_callback
GpsLiveSpec ==
    /\ GpsSpec
    /\ WF_vars(CloseSignal)
    /\ WF_vars(CloseJoin)
    /\ WF_vars(WorkerTest)
    /\ WF_vars(WorkerReadline)
    /\ WF_vars(GridCallback)

(***************************************************************************)
(* Properties of the codec.                                               *)
(***************************************************************************)
Invalid(message) ==
    /\ the_packet.type = "InvalidPacket"
    /\ the_packet.message[1] = message
    /\ the_packet.packet = packet

\* C1: from_udp_packet returns a value (a typed packet or an InvalidPacket)
\* for every buffer; it never raises.
C1_DecoderNeverRaises == Decoded => the_packet.type # "raised"

\* C2: decoding a proper prefix of a valid message yields an InvalidPacket,
\* never a typed packet.
C2_TruncatedIsInvalid ==
    (Decoded /\ \E m \in ValidMessages : Len(packet) < Len(m) /\ IsPrefix(packet, m))
        => the_packet.type = "InvalidPacket"

\* C3: decoding what HeartBeatPacket.Builder returned for a client id string,
\* max_schema, version and revision yields a HeartBeatPacket with those values.
C3_HeartbeatRoundTrip ==
    (Decoded /\ built.type = "HeartBeatPacket" /\ built.exc = "none"
       /\ built.args.wsjtx_id.t = "str")
        => /\ the_packet.type = "HeartBeatPacket"
           /\ the_packet.wsjtx_id = built.args.wsjtx_id
           /\ the_packet.max_schema = built.args.max_schema
           /\ the_packet.version = built.args.version
           /\ the_packet.revision = built.args.revision

\* C4: decoding what LocationChangePacket.Builder returned yields a
\* LocationChangePacket whose grid is the grid string passed to the Builder.
C4_LocationChangeRoundTrip ==
    (Decoded /\ built.type = "LocationChangePacket" /\ built.exc = "none"
       /\ built.args.to_wsjtx_id.t = "str")
        => /\ the_packet.type = "LocationChangePacket"
           /\ "new_grid" \in DOMAIN the_packet
           /\ the_packet.new_grid = built.args.new_grid

\* the header and kind of the datagram, where it is long enough to hold them
GoodHeader ==
    /\ Len(packet) >= 12
    /\ Len(packet) >= MINIMUM_NETWORK_MESSAGE_SIZE
    /\ Len(packet) <= MAXIMUM_NETWORK_MESSAGE_SIZE
    /\ SubSeq(packet, 1, 4) = Pack_L(MAGIC_NUMBER)
    /\ Unpack_l(SubSeq(packet, 5, 8)) \in
         MINIMUM_SCHEMA_SUPPORTED..MAXIMUM_SCHEMA_SUPPORTED

KindOfPacket == Unpack_l(SubSeq(packet, 9, 12))

\* C5: a buffer of valid size, magic and schema whose kind is one of 0..12 is
\* never rejected as of an unknown kind.
C5_TableKindsKnown ==
    (Decoded /\ GoodHeader /\ KindOfPacket \in 0..12)
        => ~Invalid("Unknown packet type ")

\* C6: write_QString accepts None and appends the length -1 and no bytes, and
\* a message built with None for a string decodes back to None.
C6_AbsentString ==
    /\ (HasWriter /\ pkt.op = "QString" /\ pkt.arg.t = "None")
         => /\ pkt.exc = "none"
            /\ Len(pkt.packet) >= 4
            /\ SubSeq(pkt.packet, Len(pkt.packet) - 3, Len(pkt.packet))
                 = Pack_l(-1)
    /\ (built.type = "HeartBeatPacket" /\ built.args.wsjtx_id.t = "None")
         => /\ built.exc = "none"
            /\ Decoded => /\ the_packet.type = "HeartBeatPacket"
                          /\ the_packet.wsjtx_id = PyNone

ReadOps == {"QInt8", "QInt32", "QInt64", "QFloat", "QString"}

\* C7: a read that raises leaves the cursor where it was before the call.
C7_FailedReadKeepsCursor ==
    (HasReader /\ last.op \in ReadOps /\ last.exc # "none")
        => ps.ptr_pos = last.ptr_before

\* C8: once a reader is constructed its cursor stays within 8..len(packet)
\* and never decreases, and every read touches only indexes of the packet.
C8_ReaderInBounds ==
    HasReader =>
        /\ 8 <= ps.ptr_pos
        /\ ps.ptr_pos <= Len(ps.packet)
        /\ last.touched \subseteq 0..(Len(ps.packet) - 1)
        /\ last.op \in ReadOps => ps.ptr_pos >= last.ptr_before

\* a string read has just met a length prefix below -1
C8_Witness ==
    /\ HasReader
    /\ last.op = "QString"
    /\ last.exc = "struct.error"
    /\ ps.ptr_pos >= 12
    /\ Unpack_l(SubSeq(ps.packet, ps.ptr_pos - 3, ps.ptr_pos)) < -1

\* C9: PacketReader(packet) raises exactly when the packet is shorter than 8
\* bytes, and otherwise leaves the cursor at 8.
C9_ConstructionFailsBelow8 ==
    last.op = "PacketReader"
        => /\ (last.exc # "none") <=> (Len(packet) < 8)
           /\ last.exc = "none" => (HasReader /\ ps.ptr_pos = 8)

\* C10: a buffer shorter than 8 bytes decodes to an InvalidPacket "Packet too
\* small", one longer than 2048 bytes to an InvalidPacket "Packet too large",
\* whatever its content.
C10_SizeGating ==
    Decoded =>
        /\ Len(packet) < 8 => Invalid("Packet too small")
        /\ Len(packet) > 2048 => Invalid("Packet too large")

\* an oversized datagram with a wrong magic was decoded
C10_Witness ==
    /\ Decoded
    /\ Len(packet) > 2048
    /\ SubSeq(packet, 1, 4) # Pack_L(MAGIC_NUMBER)
    /\ Invalid("Packet too large")

\* the magic, schema and kind fields of the datagram
MagicOfPacket == Unpack_L(SubSeq(packet, 1, 4))
SchemaOfPacket == Unpack_l(SubSeq(packet, 5, 8))

\* the datagram is a valid Heartbeat, but perhaps for its magic, schema and
\* kind fields
HeartBeatButHeader ==
    \E m \in {ValidHeartBeat(Str_test, 3, 1, 1)} :
        /\ Len(packet) = Len(m)
        /\ SubSeq(packet, 13, Len(packet)) = SubSeq(m, 13, Len(m))

\* C11: a valid Heartbeat whose magic field holds another value than
\* MAGIC_NUMBER decodes to an InvalidPacket "Invalid Magic Value", whatever
\* its schema and kind.
C11_MagicGating ==
    (Decoded /\ HeartBeatButHeader /\ MagicOfPacket # MAGIC_NUMBER)
        => Invalid("Invalid Magic Value")

\* a Heartbeat with a wrong magic, schema 4 and kind 999 was decoded
C11_Witness ==
    /\ Decoded
    /\ HeartBeatButHeader
    /\ MagicOfPacket # MAGIC_NUMBER
    /\ SchemaOfPacket = 4
    /\ KindOfPacket = 999
    /\ Invalid("Invalid Magic Value")

ValidSize ==
    /\ Len(packet) >= MINIMUM_NETWORK_MESSAGE_SIZE
    /\ Len(packet) <= MAXIMUM_NETWORK_MESSAGE_SIZE

\* C12: a buffer of valid size and magic decodes to an InvalidPacket
\* "Unsupported schema value" when its schema field, an int32, is outside
\* MINIMUM_SCHEMA_SUPPORTED..MAXIMUM_SCHEMA_SUPPORTED, and is not rejected
\* for its schema when it is inside.
C12_SchemaGating ==
    (Decoded /\ ValidSize /\ MagicOfPacket = MAGIC_NUMBER)
        => (SchemaOfPacket \notin MINIMUM_SCHEMA_SUPPORTED..MAXIMUM_SCHEMA_SUPPORTED
              <=> Invalid("Unsupported schema value "))

\* C13: a buffer of valid size, magic and schema whose kind is outside the
\* kinds 0..12 decodes to an InvalidPacket "Unknown packet type".
C13_UnknownKind ==
    (Decoded /\ GoodHeader /\ KindOfPacket \notin 0..12)
        => Invalid("Unknown packet type ")

\* the checks of from_udp_packet that the datagram fails, each by its reason
ViolatedChecks ==
    {c \in {"Packet too small", "Packet too large", "Invalid Magic Value",
            "Unsupported schema value ", "Unknown packet type "} :
        CASE c = "Packet too small" ->
               Len(packet) < MINIMUM_NETWORK_MESSAGE_SIZE
          [] c = "Packet too large" ->
               Len(packet) > MAXIMUM_NETWORK_MESSAGE_SIZE
          [] c = "Invalid Magic Value" ->
               Len(packet) >= 4 /\ MagicOfPacket # MAGIC_NUMBER
          [] c = "Unsupported schema value " ->
               /\ Len(packet) >= 8
               /\ SchemaOfPacket \notin
                    MINIMUM_SCHEMA_SUPPORTED..MAXIMUM_SCHEMA_SUPPORTED
          [] c = "Unknown packet type " ->
               Len(packet) >= 12 /\ KindOfPacket \notin 0..12}

\* the first of them in the order too small, too large, magic, schema, kind
EarliestViolatedCheck ==
    LET order == <<"Packet too small", "Packet too large", "Invalid Magic Value",
                   "Unsupported schema value ", "Unknown packet type ">>
        first == CHOOSE i \in 1..Len(order) :
                     /\ order[i] \in ViolatedChecks
                     /\ \A j \in 1..(i - 1) : order[j] \notin ViolatedChecks
    IN  order[first]

\* C14: the checks run in the order too small, too large, magic, schema,
\* kind and stop at the first that fails: a buffer that fails several of them
\* decodes to an InvalidPacket whose reason is that of the first it fails.
C14_CheckOrder ==
    (Decoded /\ Cardinality(ViolatedChecks) >= 2)
        => Invalid(EarliestViolatedCheck)

FixedOps == {"QInt8", "QInt32", "QInt64", "QFloat"}

FixedWidth(op) ==
    CASE op = "QInt8" -> 1 [] op = "QInt32" -> 4 [] op = "QInt64" -> 8
      [] op = "QFloat" -> 8

\* the bits of the bytes bs, the most significant first
BitsOf(bs) ==
    [i \in 1..(8 * Len(bs)) |->
        (bs[((i - 1) \div 8) + 1] \div (2 ^ (7 - ((i - 1) % 8)))) % 2]

\* the number whose binary digits are bits[from..to], fewer than 32 of them
RECURSIVE BitsValue(_, _, _)
BitsValue(bits, from, to) ==
    IF to < from THEN 0
    ELSE 2 * BitsValue(bits, from, to - 1) + bits[to]

\* the value the big-endian bytes bs stand for when read by op
BigEndianValue(op, bs) ==
    LET bits == BitsOf(bs)
        n == Len(bits)
        signed31(from) ==
            \* less 2^31 when the sign bit is set, in two steps of 2^30
            IF bits[from] = 0 THEN BitsValue(bits, from + 1, from + 31)
            ELSE (BitsValue(bits, from + 1, from + 31) - 1073741824)
                   - 1073741824
        low32 == <<BitsValue(bits, 33, 48), BitsValue(bits, 49, 64)>>
    IN  CASE op = "QInt8" -> PyInt(BitsValue(bits, 2, 8) - 128 * bits[1])
          [] op = "QInt32" -> PyInt(signed31(1))
          [] op = "QInt64" -> PyInt64(<<signed31(1), low32>>)
          [] op = "QFloat" ->
               PyFloat([sign |-> bits[1],
                        exponent |-> BitsValue(bits, 2, 12),
                        fraction |-> <<BitsValue(bits, 13, 32), low32>>])

\* C15: a read of a fixed-width field raises exactly when cursor + width is
\* beyond the length of the buffer; when it returns, the cursor has advanced
\* by the width and the value is the big-endian value of the bytes it passed.
C15_FixedWidthReads ==
    (HasReader /\ last.op \in FixedOps) =>
        LET width == FixedWidth(last.op)
            at == last.ptr_before
        IN  /\ last.exc # "none" <=> at + width > Len(ps.packet)
            /\ last.exc = "none" =>
                 /\ ps.ptr_pos = at + width
                 /\ last.val = BigEndianValue(last.op,
                                   SubSeq(ps.packet, at + 1, at + width))

\* a negative int32 was read from the last four bytes of the buffer
C15_Witness ==
    /\ HasReader
    /\ last.op = "QInt32"
    /\ last.exc = "none"
    /\ last.val.n < 0
    /\ ps.ptr_pos = Len(ps.packet)

\* the writes of PacketWriter that take an integer
IntegerWrites == {"QInt8", "QInt32"}

\* the datagram is the header, the kind of the Builder recorded in built as an
\* int32, then the fields of that kind in the order of the variant table: a
\* string as write_QString writes it, an integer or flag as one of the
\* integer writes writes it
FieldsInTableOrder ==
    LET a == built.args
    IN  CASE built.type = "HeartBeatPacket" ->
               \E o1, o2, o3 \in IntegerWrites :
                   packet = Message(<< <<"QInt32", 0>>, <<"QString", a.wsjtx_id>>,
                                       <<o1, a.max_schema>>, <<o2, a.version>>,
                                       <<o3, a.revision>> >>)
          [] built.type = "FreeTextPacket" ->
               \E o \in IntegerWrites :
                   packet = Message(<< <<"QInt32", 9>>,
                                       <<"QString", a.to_wsjtx_id>>,
                                       <<"QString", a.text>>,
                                       <<o, IF a.send THEN 1 ELSE 0>> >>)
          [] built.type = "LocationChangePacket" ->
               packet = Message(<< <<"QInt32", 11>>, <<"QString", a.to_wsjtx_id>>,
                                   <<"QString", a.new_grid>> >>)
          [] built.type = "LoggedADIFPacket" ->
               packet = Message(<< <<"QInt32", 12>>, <<"QString", a.to_wsjtx_id>>,
                                   <<"QString", a.adif_text>> >>)

C17_DecodeMessage ==
    (Decoded /\ packet = ValidDecode(Str_WSJTX)) =>
        /\ the_packet.type = "DecodePacket"
        /\ "time" \in DOMAIN the_packet
        /\ the_packet.wsjtx_id = Str_WSJTX
        /\ the_packet.millis_since_midnight = 43200000
        /\ the_packet.mode = Str_FT8
        /\ the_packet.message = Str_CQ

\* the number of bytes of the UTF-8 form of the code points cps
RECURSIVE Utf8Length(_)
Utf8Length(cps) ==
    IF cps = <<>> THEN 0
    ELSE (IF Head(cps) < 128 THEN 1 ELSE IF Head(cps) < 2048 THEN 2
          ELSE IF Head(cps) < 65536 THEN 3 ELSE 4)
         + Utf8Length(Tail(cps))

\* the writer's last call was write_QString(s), s a str
WroteString == HasWriter /\ pkt.op = "QString" /\ pkt.arg.t = "str"

\* C18: write_QString(s) appends the number of bytes of the UTF-8 form of s
\* as an int32, then those bytes; QString called at the start of that field
\* returns s and advances the cursor by 4 plus that number.
C18_StringRoundTrip ==
    WroteString =>
        LET n == Utf8Length(pkt.arg.v)
            end == Len(pkt.packet)
        IN  /\ pkt.exc = "none"
            /\ end >= 12 + n
            /\ SubSeq(pkt.packet, end - n - 3, end - n) = Pack_l(n)
            /\ SubSeq(pkt.packet, end - n + 1, end) = Utf8Encode(pkt.arg.v)
            /\ (HasReader /\ last.op = "QString"
                  /\ last.ptr_before = end - n - 4)
                 => /\ last.exc = "none"
                    /\ last.val = pkt.arg
                    /\ ps.ptr_pos = last.ptr_before + 4 + n

\* a string of characters of two, three and four bytes was written and read
C18_Witness ==
    /\ WroteString
    /\ Utf8Length(pkt.arg.v) > Len(pkt.arg.v)
    /\ HasReader
    /\ last.op = "QString"
    /\ last.ptr_before = Len(pkt.packet) - Utf8Length(pkt.arg.v) - 4
    /\ last.val = pkt.arg

(***************************************************************************)
(* Properties of the loop.                                                 *)
(***************************************************************************)
\* the loop has sent a datagram while handling the datagram at hand
HasSent == sent.t = "datagram"

\* the datagram sent is the LocationChange for "GRID:" + grid
Carries(grid) ==
    sent.pkt = LocationChangePacket_Builder(wsjtx_id,
                                            concat(Str_GRIDColon, grid)).packet

\* C19: a LocationChange is sent only while a Status message is handled, to
\* the address that Status came from, and it carries "GRID:" followed by a
\* GPS grid that is not empty and differs, letter case ignored, from the
\* de_grid of that Status.
C19_SendOnlyOnStatus ==
    HasSent =>
        /\ the_packet.type = "StatusPacket"
        /\ sent.addr_port = addr_port
        /\ \E grid \in Grids :
            /\ Carries(grid)
            /\ lower(grid) # lower(the_packet.de_grid)

\* the main thread is at the call of LocationChangePacket.Builder, or past it
\* in this iteration
Builds == pc = "Builder" \/ pc = "send_packet" \/ HasSent

\* C20: whenever the loop builds a LocationChange, a Heartbeat has been
\* received before and wsjtx_id is the client id of a Heartbeat, a string
\* and not None; nothing is built or sent before the first Heartbeat.
C20_HeartbeatBeforeBuild ==
    Builds =>
        /\ heartbeats # {}
        /\ wsjtx_id \in heartbeats
        /\ wsjtx_id.t = "str"

\* C21: GPS monitoring is started at most once: the loop calls sgps.open only
\* for the first Heartbeat, when no port is open and no serial_worker was
\* ever started, and no more than one serial_worker is ever started.
C21_StartedOnce ==
    /\ Len(threads) <= 1
    /\ pc = "open" => threads = <<>> /\ sgps.comm_device = "None"

(***************************************************************************)
(* Properties of the GPS side.                                             *)
(***************************************************************************)
\* every thread started for grid_callback has run
CallbacksDone == Started(callbacks, Grids) = 0

\* C22: once every callback thread started by handle_serial has finished,
\* gps_grid is the grid NMEALocation holds, the one detected last.
C22_LastGridWins ==
    (CallbacksDone /\ nmea_p.grid # PyStr(<<>>)) => gps_grid = nmea_p.grid

\* the last "$GP" line handled gave a grid that is not empty
LastGaveGrid == handled.grid.t = "str" /\ handled.grid # PyStr(<<>>)

\* C23: the grid NMEALocation stores changes only to a grid that is not empty,
\* so it never goes back to the empty string; a callback thread is started
\* once for each change and for nothing else; and valid is true exactly when
\* the last "$GP" line handled gave a grid that is not empty.
C23_HandleSerial ==
    /\ nmea_p.grid # handled.before => nmea_p.grid # PyStr(<<>>)
    /\ handled.before # PyStr(<<>>) => nmea_p.grid # PyStr(<<>>)
    /\ handled.started = IF nmea_p.grid # handled.before THEN 1 ELSE 0
    /\ nmea_p.valid <=> LastGaveGrid

\* C25: NMEA_to_grid never raises, so no line of the GPS ends a serial_worker
\* thread: every thread runs or has returned.
C25_NeverRaises ==
    /\ handled.exc = "none"
    /\ \A thread \in 1..Len(threads) :
           threads[thread] \in {"stop_signalled", "readline", "returned"}

\* close() has returned to where it was called from
CloseReturned == pc \in {"idle", "Serial"} /\ sgps.comm_device = "None"

\* C24: a close() called on an open SerialGPS returns, and when it returns
\* comm_device is None, line_handlers is empty and stop_signalled is False;
\* at most one serial_worker thread runs at any time, whatever open and
\* close calls are made.
C24_CloseTerminates ==
    /\ [](Cardinality(Alive) <= 1)
    /\ [][(pc = "join" /\ pc' \in {"idle", "Serial"}) =>
            /\ sgps'.comm_device = "None"
            /\ sgps'.line_handlers = <<>>
            /\ ~sgps'.stop_signalled
            /\ Alive = {}]_vars
    /\ (pc = "close" /\ sgps.comm_device = "Serial") ~> CloseReturned

\* open() on an open SerialGPS has closed it and started the second
\* serial_worker after the first one returned
C24_Witness ==
    /\ pc = "idle"
    /\ Len(threads) = 2
    /\ threads[1] = "returned"
    /\ threads[2] = "readline"
    /\ sgps.comm_device = "Serial"
    /\ stack = <<>>

=============================================================================
